---- MODULE Spec2Model ----
(***************************************************************************)
(* Voice-driven form control: the speech recognition hook                  *)
(* (useVoiceRecognition), the transcript gate and command interpreter      *)
(* (useVoiceCommands) and the two forms that configure them (RegisterPage, *)
(* LoginPage).                                                             *)
(*                                                                         *)
(* Strings are sequences of one-character strings, so that trim,           *)
(* toLowerCase, includes, startsWith and replace are computed and not      *)
(* assumed.  A React state update and the render and effects it causes     *)
(* are taken as one step with the handler that made the update.            *)
(***************************************************************************)
EXTENDS Integers, Sequences, FiniteSets, TLC

\* ------------------------------------------------------------------------
\* Bounds
\* ------------------------------------------------------------------------

\* Most timers (setTimeout callbacks) pending at the same time.
MaxTimers == 2

\* The generation of an engine session (0 for a session begun by a manual
\* start, n + 1 for the automatic restart of a session of generation n)
\* saturates here.
MaxChain == 2
MaxQueued == 2

\* ------------------------------------------------------------------------
\* Strings
\* ------------------------------------------------------------------------

S_next == <<"n", "e", "x", "t">>
S_name == <<"n", "a", "m", "e">>
S_email == <<"e", "m", "a", "i", "l">>
S_password == <<"p", "a", "s", "s", "w", "o", "r", "d">>
S_confirm == <<"c", "o", "n", "f", "i", "r", "m">>
S_confirm_password == S_confirm \o <<" ">> \o S_password
S_go_to == <<"g", "o", " ", "t", "o">>
S_sign_in == <<"s", "i", "g", "n", " ", "i", "n">>
S_sign_up == <<"s", "i", "g", "n", " ", "u", "p">>
S_go_to_sign_up == S_go_to \o <<" ">> \o S_sign_up
S_signup_page == <<"s", "i", "g", "n", "u", "p", " ", "p", "a", "g", "e">>

\* String.prototype.toLowerCase on one character.
LowerChar(c) ==
  CASE c = "A" -> "a" [] c = "B" -> "b" [] c = "E" -> "e" [] c = "N" -> "n"
    [] c = "P" -> "p" [] c = "S" -> "s" [] c = "X" -> "x"
    [] OTHER -> c

toLowerCase(s) == [i \in 1..Len(s) |-> LowerChar(s[i])]

IsSpace(c) == c = " "

RECURSIVE trimStart(_)
trimStart(s) ==
  IF s # <<>> /\ IsSpace(Head(s)) THEN trimStart(Tail(s)) ELSE s

RECURSIVE trimEnd(_)
trimEnd(s) ==
  IF s # <<>> /\ IsSpace(s[Len(s)])
  THEN trimEnd(SubSeq(s, 1, Len(s) - 1))
  ELSE s

\* String.prototype.trim
trim(s) == trimEnd(trimStart(s))

\* s has p at (1-based) position i
MatchAt(s, p, i) ==
  /\ i + Len(p) - 1 <= Len(s)
  /\ \A k \in 1..Len(p) : s[i + k - 1] = p[k]

\* String.prototype.includes
includes(s, p) == \E i \in 1..(Len(s) + 1) : MatchAt(s, p, i)

\* String.prototype.startsWith
startsWith(s, p) == MatchAt(s, p, 1)

\* String.prototype.replace(p, '') with a string pattern: the first
\* occurrence of p is removed.
replaceFirst(s, p) ==
  IF ~includes(s, p) THEN s
  ELSE LET i == CHOOSE j \in 1..(Len(s) + 1) :
                  /\ MatchAt(s, p, j)
                  /\ \A k \in 1..(j - 1) : ~MatchAt(s, p, k)
       IN SubSeq(s, 1, i - 1) \o SubSeq(s, i + Len(p), Len(s))

\* stripWhitespace that removes leading and trailing whitespace only.
stripWhitespace_outerOnly(s) == trim(s)

\* String.prototype.replace(/\s+/g, '')
RECURSIVE stripWhitespace(_)
stripWhitespace(s) ==
  IF s = <<>> THEN <<>>
  ELSE IF IsSpace(Head(s)) THEN stripWhitespace(Tail(s))
  ELSE <<Head(s)>> \o stripWhitespace(Tail(s))

\* ------------------------------------------------------------------------
\* Command interpreter (useVoiceCommands.processVoiceCommand)
\* ------------------------------------------------------------------------

Null == "null"

\* The forms that mount useVoiceCommands.
Forms == {"register", "login"}

\* The pages that mount useVoiceRecognition: the forms, through
\* useVoiceCommands, and the chat page, directly.
Consumers == Forms \cup {"chat"}

\* VoiceCommandsConfig: which optional callbacks the form passes.
hasOnNameCommand(form) == form \in {"register", "login"}

\* hasOnConfirmPasswordCommand of a form that is taken to pass the callback.
hasOnConfirmPasswordCommand_always(form) == TRUE

hasOnConfirmPasswordCommand(form) == form = "register"

Call(name, arg) == [cb |-> name, arg |-> arg]

\* The conditions of processVoiceCommand's branches.
\* IsGoToSignUpCommand without the second phrase.
IsGoToSignUpCommand_onlyGoTo(command) == includes(command, S_go_to_sign_up)

IsGoToSignUpCommand(command) ==
  includes(command, S_go_to_sign_up) \/ includes(command, S_signup_page)

IsSignInCommand(command) ==
  includes(command, S_sign_in) /\ ~includes(command, S_go_to)

IsSignUpCommand(command) ==
  includes(command, S_sign_up) /\ ~includes(command, S_go_to)

IsNextCommand(command) == includes(command, S_next)

\* IsNameCommand that looks for the keyword anywhere.
IsNameCommand_contains(command) == includes(command, S_name)

IsNameCommand(command) == startsWith(command, S_name)

\* IsEmailCommand that looks for the keyword anywhere.
IsEmailCommand_contains(command) == includes(command, S_email)

IsEmailCommand(command) == startsWith(command, S_email)

\* IsPasswordCommand that looks for the keyword anywhere.
IsPasswordCommand_contains(command) == includes(command, S_password)

\* IsPasswordCommand without the exclusion of "confirm".
IsPasswordCommand_noConfirmCheck(command) == startsWith(command, S_password)

IsPasswordCommand(command) ==
  startsWith(command, S_password) /\ ~includes(command, S_confirm)

IsConfirmPasswordCommand(command) == startsWith(command, S_confirm_password)

\* Remainder without the trim.
Remainder_untrimmed(command, keyword) == replaceFirst(command, keyword)

\* Remainder that keeps the keyword.
Remainder_keepsKeyword(command, keyword) == trim(command)

\* command.replace(keyword, '').trim()
Remainder(command, keyword) == trim(replaceFirst(command, keyword))

\* The navigation branches of processVoiceCommand: the callback of the
\* first branch whose condition holds, Null when none does.
NavigationCommand(command) ==
  IF IsGoToSignUpCommand(command) THEN "onGoToSignUpCommand"
  ELSE IF IsSignInCommand(command) THEN "onSignInCommand"
  ELSE IF IsSignUpCommand(command) THEN "onSignUpCommand"
  ELSE IF IsNextCommand(command) THEN "onNextCommand"
  ELSE Null

\* The branches of processVoiceCommand after the navigation branches: the
\* field selections and the direct input.
SelectOrInput(command, field, form) ==
  IF IsNameCommand(command)
  THEN LET nameText == Remainder(command, S_name)
       IN [field |-> "name",
           cbs |-> IF nameText # <<>> /\ hasOnNameCommand(form)
                   THEN <<Call("onNameCommand", nameText)>> ELSE <<>>]
  ELSE IF IsEmailCommand(command)
  THEN LET emailText == Remainder(command, S_email)
       IN [field |-> "email",
           cbs |-> IF emailText # <<>>
                   THEN <<Call("onEmailCommand", emailText)>> ELSE <<>>]
  ELSE IF IsPasswordCommand(command)
  THEN LET passwordText == Remainder(command, S_password)
       IN [field |-> "password",
           cbs |-> IF passwordText # <<>>
                   THEN <<Call("onPasswordCommand", passwordText)>> ELSE <<>>]
  ELSE IF IsConfirmPasswordCommand(command)
  THEN LET passwordText == Remainder(command, S_confirm_password)
       IN [field |-> "confirmPassword",
           cbs |-> IF passwordText # <<>> /\ hasOnConfirmPasswordCommand(form)
                   THEN <<Call("onConfirmPasswordCommand", passwordText)>>
                   ELSE <<>>]
  ELSE IF field # Null /\ command # <<>>
  THEN [field |-> field,
        cbs |-> CASE field = "name" ->
                       IF hasOnNameCommand(form)
                       THEN <<Call("onNameCommand", command)>> ELSE <<>>
                  [] field = "email" -> <<Call("onEmailCommand", command)>>
                  [] field = "password" -> <<Call("onPasswordCommand", command)>>
                  [] field = "confirmPassword" ->
                       IF hasOnConfirmPasswordCommand(form)
                       THEN <<Call("onConfirmPasswordCommand", command)>>
                       ELSE <<>>
                  [] OTHER -> <<>>]
  ELSE [field |-> field, cbs |-> <<>>]

\* processVoiceCommand whose navigation branches do not return.
processVoiceCommand_fallsThrough(command, field, form) ==
  LET r == SelectOrInput(command, field, form)
  IN IF NavigationCommand(command) # Null
     THEN [field |-> r.field,
           cbs |-> <<Call(NavigationCommand(command), <<>>)>> \o r.cbs]
     ELSE r

\* processVoiceCommand whose navigation branches clear the current field.
processVoiceCommand_navigationClearsField(command, field, form) ==
  IF NavigationCommand(command) # Null
  THEN [field |-> Null,
        cbs |-> <<Call(NavigationCommand(command), <<>>)>>]
  ELSE SelectOrInput(command, field, form)

\* The outcome of processVoiceCommand(command) with currentFieldRef.current
\* = field: the new currentFieldRef.current and the config callbacks
\* invoked, in order.
processVoiceCommand(command, field, form) ==
  IF NavigationCommand(command) # Null
  THEN [field |-> field,
        cbs |-> <<Call(NavigationCommand(command), <<>>)>>]
  ELSE SelectOrInput(command, field, form)

\* ------------------------------------------------------------------------
\* The forms' callbacks (RegisterPage, LoginPage)
\* ------------------------------------------------------------------------

\* A page is [formData, currentField, effects]: the field values, the
\* page's own focus state and the actions it has triggered in this step.
EmptyFormData == [name |-> <<>>, email |-> <<>>, password |-> <<>>,
                  confirmPassword |-> <<>>]

\* AllFilled that does not look at confirmPassword.
AllFilled_ignoresConfirm(fd) ==
  fd.name # <<>> /\ fd.email # <<>> /\ fd.password # <<>>

\* AllFilled that is satisfied by any content.
AllFilled_always(fd) == TRUE

\* RegisterPage's test before handleSubmit
AllFilled(fd) ==
  fd.name # <<>> /\ fd.email # <<>> /\ fd.password # <<>>
    /\ fd.confirmPassword # <<>>

\* LoginFilled that does not look at the password.
LoginFilled_ignoresPassword(fd) == fd.email # <<>>

\* LoginPage's test before handleSubmit
LoginFilled(fd) == fd.email # <<>> /\ fd.password # <<>>

\* RegisterPage's onNextCommand
RegisterOnNext(pg) ==
  CASE pg.currentField = "name" -> [pg EXCEPT !.currentField = "email"]
    [] pg.currentField = "email" -> [pg EXCEPT !.currentField = "password"]
    [] pg.currentField = "password" ->
         [pg EXCEPT !.currentField = "confirmPassword"]
    [] pg.currentField = "confirmPassword" ->
         IF AllFilled(pg.formData)
         THEN [pg EXCEPT !.effects = Append(@, "handleSubmit")]
         ELSE pg
    [] OTHER -> pg

\* The config object RegisterPage passes to useVoiceCommands, applied to
\* one callback invocation.
RegisterCallback(pg, c) ==
  CASE c.cb = "onNameCommand" ->
         [pg EXCEPT !.formData.name = c.arg, !.currentField = "name"]
    [] c.cb = "onEmailCommand" ->
         [pg EXCEPT !.formData.email = toLowerCase(stripWhitespace(c.arg)),
                    !.currentField = "email"]
    [] c.cb = "onPasswordCommand" ->
         [pg EXCEPT !.formData.password = stripWhitespace(c.arg),
                    !.currentField = "password"]
    [] c.cb = "onConfirmPasswordCommand" ->
         [pg EXCEPT !.formData.confirmPassword = stripWhitespace(c.arg),
                    !.currentField = "confirmPassword"]
    [] c.cb = "onSignInCommand" ->
         [pg EXCEPT !.effects = Append(@, "navigate /login")]
    [] c.cb = "onSignUpCommand" ->
         IF AllFilled(pg.formData)
         THEN [pg EXCEPT !.effects = Append(@, "handleSubmit")]
         ELSE pg
    [] c.cb = "onGoToSignUpCommand" -> pg
    [] c.cb = "onNextCommand" -> RegisterOnNext(pg)
    [] OTHER -> pg

\* The config object LoginPage passes to useVoiceCommands.
LoginCallback(pg, c) ==
  CASE c.cb = "onNameCommand" -> pg
    [] c.cb = "onEmailCommand" ->
         [pg EXCEPT !.formData.email = toLowerCase(stripWhitespace(c.arg))]
    [] c.cb = "onPasswordCommand" ->
         [pg EXCEPT !.formData.password = stripWhitespace(c.arg)]
    [] c.cb = "onSignInCommand" ->
         IF LoginFilled(pg.formData)
         THEN [pg EXCEPT !.effects = Append(@, "handleSubmit")]
         ELSE pg
    [] c.cb = "onGoToSignUpCommand" ->
         [pg EXCEPT !.effects = Append(@, "navigate /register")]
    [] c.cb = "onSignUpCommand" -> pg
    [] c.cb = "onNextCommand" -> pg
    [] OTHER -> pg

RECURSIVE ApplyCallbacks(_, _, _)
ApplyCallbacks(form, pg, cbs) ==
  IF cbs = <<>> THEN pg
  ELSE ApplyCallbacks(form,
                      IF form = "register" THEN RegisterCallback(pg, Head(cbs))
                      ELSE LoginCallback(pg, Head(cbs)),
                      Tail(cbs))

\* ------------------------------------------------------------------------
\* The speech engine (platform SpeechRecognition object)
\* ------------------------------------------------------------------------

\* idle: no session; starting: start() accepted, onstart not yet delivered;
\* running: onstart delivered; errored: onerror delivered, onend to come.
EngineStates == {"idle", "starting", "running", "errored"}

EngineActive(e) == e # "idle"

\* SpeechRecognition.start(): throws InvalidStateError when a session has
\* already been started and has not ended.
EngineStart(e) ==
  IF EngineActive(e) THEN [engine |-> e, threw |-> TRUE]
  ELSE [engine |-> "starting", threw |-> FALSE]

\* EngineStop that ends the session without an onend event.
EngineStop_silent(e) == "idle"

\* SpeechRecognition.stop(): asks the session to end; the end is reported
\* by a later onend event.
EngineStop(e) == e

ErrorKinds == {"no-speech", "aborted"}

\* What the engine may report as the first alternative of the first result.
Utterances ==
  { <<" ", "N", "e", "x", "t", " ">>,
    <<"e", "m", "a", "i", "l", " ", "A", " ", "b">>,
    <<"x">>,
    <<" ">> }

\* ------------------------------------------------------------------------
\* State
\* ------------------------------------------------------------------------

VARIABLES
  isSupported,       \* 'SpeechRecognition' in window
  form,              \* the page that mounted the hook
  mounted,           \* the component has not been unmounted
  isListening,       \* useVoiceRecognition state
  transcript,        \* useVoiceRecognition state
  recognitionRef,    \* recognitionRef.current: Null or "engine"
  effectIsListening, \* isListening as captured by the mount effect's closures
  engine,            \* state of the engine session
  timers,            \* pending setTimeout callbacks, oldest first: <<"reset", 0>>
                     \* or <<"retry", generation of the restart>>
  lastTranscriptRef, \* useVoiceCommands lastTranscriptRef.current
  currentFieldRef,   \* useVoiceCommands currentFieldRef.current
  formData,          \* the page's field values
  currentField,      \* RegisterPage's currentField state
  sessionGen,        \* generation of the engine's current (or last) session
  queued,            \* setTranscript updates that React has not rendered yet:
                     \* <<"result", text>> or <<"reset", <<>>>>, oldest first
  last               \* what the last step did

vars == <<isSupported, form, mounted, isListening, transcript, recognitionRef,
          effectIsListening, engine, timers, lastTranscriptRef,
          currentFieldRef, formData, currentField, sessionGen, queued,
          last>>

\* The record of a step: the operation, its input, the generation of the
\* restart (of a retry timer), the engine primitives it
\* invoked, whether one threw, whether an exception left the handler, the
\* commands forwarded to processVoiceCommand, the config callbacks invoked,
\* the page actions triggered, what lastTranscriptRef.current held while
\* processVoiceCommand ran, and the state before the step.
Did(op, arg) ==
  [op |-> op, arg |-> arg, gen |-> 0, calls |-> <<>>, threw |-> FALSE,
   escaped |-> FALSE,
   fwd |-> <<>>, cbs |-> <<>>, effects |-> <<>>, during |-> <<>>,
   pre |-> [isListening |-> isListening, transcript |-> transcript,
            currentFieldRef |-> currentFieldRef,
            currentField |-> currentField, formData |-> formData,
            lastTranscriptRef |-> lastTranscriptRef, timers |-> timers,
            queued |-> queued]]

Init ==
  /\ isSupported \in BOOLEAN
  /\ form \in Consumers
  /\ mounted = TRUE
  /\ isListening = FALSE
  /\ transcript = <<>>
  /\ recognitionRef = IF isSupported THEN "engine" ELSE Null
  /\ effectIsListening = isListening
  /\ engine = "idle"
  /\ timers = <<>>
  /\ lastTranscriptRef = <<>>
  /\ currentFieldRef = Null
  /\ formData = EmptyFormData
  /\ currentField = IF form = "register" THEN "name" ELSE Null
  /\ sessionGen = 0
  /\ queued = <<>>
  /\ last = Did("mount", <<>>)

\* ------------------------------------------------------------------------
\* Transcript gate (useVoiceCommands useEffect([transcript]))
\* ------------------------------------------------------------------------

\* GateAdmits without the comparison against the last admitted value and
\* without the dependency on a change.
GateAdmits_noDedup(old, new, lastAdmitted) == new # <<>>

\* The effect runs when transcript changed and forwards a non-empty value
\* that differs from lastTranscriptRef.current.
GateAdmits(old, new, lastAdmitted) ==
  new # old /\ new # <<>> /\ new # lastAdmitted

\* setTranscript(new), the render and, on the forms, the gate effect that
\* follow.  A state setter of an unmounted component does nothing.
SetTranscript(new, did, queue) ==
  IF ~mounted
  THEN /\ UNCHANGED <<transcript, lastTranscriptRef, currentFieldRef,
                      formData, currentField>>
       /\ timers' = queue
       /\ last' = did
  ELSE IF form \in Forms /\ GateAdmits(transcript, new, lastTranscriptRef)
  THEN LET ref == new
           command == toLowerCase(new)
           r == processVoiceCommand(command, currentFieldRef, form)
           pg == ApplyCallbacks(form,
                                [formData |-> formData,
                                 currentField |-> currentField,
                                 effects |-> <<>>],
                                r.cbs)
       IN /\ Len(queue) < MaxTimers
          /\ transcript' = new
          /\ lastTranscriptRef' = ref
          /\ currentFieldRef' = r.field
          /\ formData' = pg.formData
          /\ currentField' = pg.currentField
          /\ timers' = Append(queue, <<"reset", 0>>)
          /\ last' = [did EXCEPT !.fwd = <<command>>, !.cbs = r.cbs,
                                 !.effects = pg.effects,
                                 !.during = <<ref>>]
  ELSE /\ transcript' = new
       /\ UNCHANGED <<lastTranscriptRef, currentFieldRef, formData,
                      currentField>>
       /\ timers' = queue
       /\ last' = did

\* setIsListening(v)
SetIsListening(v) == isListening' = IF mounted THEN v ELSE isListening

\* resetTranscript that puts the last admitted transcript back.
resetTranscript_restores(did, queue) ==
  SetTranscript(lastTranscriptRef, did, queue)

\* resetTranscript that leaves the transcript.
resetTranscript_keeps(did, queue) == SetTranscript(transcript, did, queue)

\* resetTranscript()
resetTranscript(did, queue) == SetTranscript(<<>>, did, queue)

\* ------------------------------------------------------------------------
\* Recognition session (useVoiceRecognition)
\* ------------------------------------------------------------------------

Min(a, b) == IF a < b THEN a ELSE b

\* CanStart without the test of isListening.
CanStart_ignoresListening(ref, listening) == ref # Null

\* CanStart without the test of recognitionRef.current.
CanStart_ignoresRef(ref, listening) == ~listening

\* startListening's condition
CanStart(ref, listening) == ref # Null /\ ~listening

\* CanStop without the test of isListening.
CanStop_ignoresListening(ref, listening) == ref # Null

\* stopListening's condition
CanStop(ref, listening) == ref # Null /\ listening

\* The condition the retry timer's callback tests, on the values its
\* closure holds.
RetryGuard(ref, capturedListening) == ref # Null /\ ~capturedListening

\* CleanupStops that stops the engine only while listening.
CleanupStops_onlyWhenListening(supported, ref) ==
  supported /\ ref # Null /\ isListening

\* The mount effect returns a cleanup, which stops the engine, only when
\* the engine is supported and was created.
CleanupStops(supported, ref) == supported /\ ref # Null

\* StartEscapes without the try/catch.
StartEscapes_uncaught(threw) == threw

\* startListening's try/catch: an exception of the engine's start primitive
\* does not leave the function.
StartEscapes(threw) == FALSE

\* The user (or the page) calls startListening().
startListening ==
  /\ mounted
  /\ IF CanStart(recognitionRef, isListening)
     THEN LET r == EngineStart(engine)
          IN /\ engine' = r.engine
             /\ sessionGen' = IF r.threw THEN sessionGen ELSE 0
             /\ SetTranscript(<<>>,
                              [Did("startListening", <<>>) EXCEPT
                                 !.calls = <<"start">>, !.threw = r.threw,
                                 !.escaped = StartEscapes(r.threw)],
                              timers)
             /\ IF r.threw /\ ~StartEscapes(r.threw)
                THEN SetIsListening(FALSE)
                ELSE UNCHANGED isListening
     ELSE /\ last' = Did("startListening", <<>>)
          /\ UNCHANGED <<engine, sessionGen, isListening, transcript, timers,
                         lastTranscriptRef, currentFieldRef, formData,
                         currentField>>
  /\ UNCHANGED <<queued, isSupported, form, mounted, recognitionRef,
                 effectIsListening>>

\* The user (or the page) calls stopListening().
stopListening ==
  /\ mounted
  /\ IF CanStop(recognitionRef, isListening)
     THEN /\ engine' = EngineStop(engine)
          /\ last' = [Did("stopListening", <<>>) EXCEPT !.calls = <<"stop">>]
     ELSE /\ engine' = engine
          /\ last' = Did("stopListening", <<>>)
  /\ UNCHANGED <<queued, isSupported, form, mounted, isListening, transcript,
                 recognitionRef, effectIsListening, timers, lastTranscriptRef,
                 currentFieldRef, formData, currentField, sessionGen>>

\* recognition.onstart
onstart ==
  /\ engine = "starting"
  /\ engine' = "running"
  /\ SetIsListening(TRUE)
  /\ last' = Did("onstart", <<>>)
  /\ UNCHANGED <<queued, isSupported, form, mounted, transcript, recognitionRef,
                 effectIsListening, timers, lastTranscriptRef,
                 currentFieldRef, formData, currentField, sessionGen>>

\* onresult that also ends the listening status when the result is final.
onresult_endsListening(raw, isFinal) ==
  /\ engine = "running"
  /\ IF isFinal
     THEN /\ SetTranscript(trim(raw), Did("onresult", <<raw, isFinal>>),
                           timers)
          /\ SetIsListening(FALSE)
     ELSE /\ last' = Did("onresult", <<raw, isFinal>>)
          /\ UNCHANGED <<isListening, transcript, timers, lastTranscriptRef,
                         currentFieldRef, formData, currentField>>
  /\ UNCHANGED <<queued, isSupported, form, mounted, recognitionRef,
                 effectIsListening, engine, sessionGen>>

\* onresult that takes interim results as well.
onresult_takesInterim(raw, isFinal) ==
  /\ engine = "running"
  /\ SetTranscript(trim(raw), Did("onresult", <<raw, isFinal>>), timers)
  /\ UNCHANGED <<queued, isSupported, form, mounted, isListening, recognitionRef,
                 effectIsListening, engine, sessionGen>>

\* recognition.onresult, with event.results[0][0].transcript = raw and
\* event.results[0].isFinal = isFinal
onresult(raw, isFinal) ==
  /\ engine = "running"
  /\ IF isFinal
     THEN SetTranscript(trim(raw), Did("onresult", <<raw, isFinal>>), timers)
     ELSE /\ last' = Did("onresult", <<raw, isFinal>>)
          /\ UNCHANGED <<transcript, timers, lastTranscriptRef,
                         currentFieldRef, formData, currentField>>
  /\ UNCHANGED <<queued, isSupported, form, mounted, isListening, recognitionRef,
                 effectIsListening, engine, sessionGen>>

\* SchedulesRetry that restarts a manually started session only.
SchedulesRetry_onlyFirst(kind) == kind = "no-speech" /\ sessionGen = 0

\* onerror schedules the delayed restart for this kind of error only.
SchedulesRetry(kind) == kind = "no-speech"

\* recognition.onerror, with event.error = kind
onerror(kind) ==
  /\ engine \in {"starting", "running"}
  /\ kind = "no-speech" => engine = "running"
  /\ engine' = "errored"
  /\ SetIsListening(FALSE)
  /\ IF SchedulesRetry(kind)
     THEN /\ Len(timers) < MaxTimers
          /\ timers' = Append(timers,
                              <<"retry", Min(sessionGen + 1, MaxChain)>>)
     ELSE timers' = timers
  /\ last' = Did("onerror", <<kind>>)
  /\ UNCHANGED <<queued, isSupported, form, mounted, transcript, recognitionRef,
                 effectIsListening, lastTranscriptRef, currentFieldRef,
                 formData, currentField, sessionGen>>

\* recognition.onend
onend ==
  /\ EngineActive(engine)
  /\ engine' = "idle"
  /\ SetIsListening(FALSE)
  /\ last' = Did("onend", <<>>)
  /\ UNCHANGED <<queued, isSupported, form, mounted, transcript, recognitionRef,
                 effectIsListening, timers, lastTranscriptRef,
                 currentFieldRef, formData, currentField, sessionGen>>

\* The callback of onerror's setTimeout runs.
retryTimer ==
  /\ timers # <<>>
  /\ Head(timers)[1] = "retry"
  /\ timers' = Tail(timers)
  /\ IF RetryGuard(recognitionRef, effectIsListening)
     THEN LET r == EngineStart(engine)
          IN /\ engine' = r.engine
             /\ sessionGen' = IF r.threw THEN sessionGen
                              ELSE Head(timers)[2]
             /\ last' = [Did("retryTimer", <<>>) EXCEPT
                           !.gen = Head(timers)[2],
                           !.calls = <<"start">>, !.threw = r.threw]
     ELSE /\ last' = [Did("retryTimer", <<>>) EXCEPT
                         !.gen = Head(timers)[2]]
          /\ UNCHANGED <<engine, sessionGen>>
  /\ UNCHANGED <<queued, isSupported, form, mounted, isListening, transcript,
                 recognitionRef, effectIsListening, lastTranscriptRef,
                 currentFieldRef, formData, currentField>>

\* The callback of the gate's setTimeout runs.
resetTimer ==
  /\ timers # <<>>
  /\ Head(timers)[1] = "reset"
  /\ resetTranscript(Did("resetTimer", <<>>), Tail(timers))
  /\ UNCHANGED <<queued, isSupported, form, mounted, isListening, recognitionRef,
                 effectIsListening, engine, sessionGen>>

\* The chat page calls resetTranscript() (when it sends a message).
resetTranscriptCall ==
  /\ mounted
  /\ form = "chat"
  /\ resetTranscript(Did("resetTranscript", <<>>), timers)
  /\ UNCHANGED <<queued, isSupported, form, mounted, isListening, recognitionRef,
                 effectIsListening, engine, sessionGen>>

\* The component is unmounted: the mount effect's cleanup runs.
unmount ==
  /\ mounted
  /\ mounted' = FALSE
  /\ IF CleanupStops(isSupported, recognitionRef)
     THEN /\ engine' = EngineStop(engine)
          /\ last' = [Did("unmount", <<>>) EXCEPT !.calls = <<"stop">>]
     ELSE /\ engine' = engine
          /\ last' = Did("unmount", <<>>)
  /\ UNCHANGED <<queued, isSupported, form, isListening, transcript, recognitionRef,
                 effectIsListening, timers, lastTranscriptRef,
                 currentFieldRef, formData, currentField, sessionGen>>

Next ==
  \/ startListening
  \/ stopListening
  \/ onstart
  \/ \E raw \in Utterances, isFinal \in BOOLEAN : onresult(raw, isFinal)
  \/ \E kind \in ErrorKinds : onerror(kind)
  \/ onend
  \/ retryTimer
  \/ resetTimer
  \/ resetTranscriptCall
  \/ unmount

Spec == Init /\ [][Next]_vars

\* A setTimeout callback that is due runs.
SpecLive == Spec /\ WF_vars(resetTimer) /\ WF_vars(retryTimer)

\* The engine ends every session it started: onend follows.
SpecEnds == Spec /\ WF_vars(onend)

\* ------------------------------------------------------------------------
\* The command path on its own: a listening session on a form, in any
\* focus state and with any of a few field contents, receives one final
\* result and then follow-up results within the settle delay.
\* ------------------------------------------------------------------------

FieldNames == {"name", "email", "password", "confirmPassword"}

S_x == <<"x">>
S_value == <<"j", "@", "x">>
S_two_words == <<"a", " ", "b">>

Tokens ==
  { S_name, S_email, S_password, S_confirm, S_confirm_password, S_next,
    S_sign_in, S_sign_up, S_go_to, S_go_to_sign_up, S_signup_page,
    S_x, S_value, S_two_words }

\* The results the engine reports first: one or two tokens, some glued
\* without a space, some with capitals and outer spaces.
Commands ==
  Tokens
    \cup { a \o <<" ">> \o b : a \in Tokens, b \in Tokens }
    \cup { a \o b : a \in {S_name, S_email, S_password, S_confirm_password},
                    b \in {S_x, S_next} }
    \cup { <<" ", "E", "m", "a", "i", "l", " ", "X", " ">>,
           <<"P", "a", "s", "s", "w", "o", "r", "d", " ", "A", " ", "b">>,
           <<"N", "E", "X", "T">> }

\* The results the engine reports after the first.
FollowUps == { S_next, S_x, S_value }

\* The word that selects a field.
Keyword(f) ==
  CASE f = "name" -> S_name
    [] f = "email" -> S_email
    [] f = "password" -> S_password
    [] f = "confirmPassword" -> S_confirm_password
    [] OTHER -> <<>>

\* Field contents (typed or dictated before): all empty, all filled, or
\* all but one filled; the sign-in form has only email and password.
FormDatas(page) ==
  LET filled == [name |-> S_x, email |-> S_value, password |-> S_x,
                 confirmPassword |-> S_x]
  IN IF page = "register"
     THEN {EmptyFormData, filled}
            \cup { [filled EXCEPT ![f] = <<>>] : f \in FieldNames }
     ELSE { [EmptyFormData EXCEPT !.email = e, !.password = pw] :
              e \in {<<>>, S_value}, pw \in {<<>>, S_x} }

InitCmd ==
  /\ isSupported = TRUE
  /\ form \in Forms
  /\ mounted = TRUE
  /\ isListening = TRUE
  /\ transcript = <<>>
  /\ recognitionRef = "engine"
  /\ effectIsListening = FALSE
  /\ engine = "running"
  /\ timers = <<>>
  /\ currentFieldRef \in FieldNames \cup {Null}
  /\ lastTranscriptRef = Keyword(currentFieldRef)
  /\ formData \in FormDatas(form)
  /\ currentField \in IF form = "register" THEN FieldNames ELSE {Null}
  /\ sessionGen = 0
  /\ queued = <<>>
  /\ last = [Did("onstart", <<>>) EXCEPT !.pre.isListening = FALSE]

NextCmd ==
  \E raw \in (IF timers = <<>> THEN Commands ELSE FollowUps) :
    onresult(raw, TRUE)

SpecCmd == InitCmd /\ [][NextCmd]_vars

\* ------------------------------------------------------------------------
\* The gate under React's batching: a setTranscript call outside a React
\* event handler (an engine event, a timer) only enqueues the update; the
\* render that applies the queued updates, and the gate effect after it,
\* run in a later task, and another engine event or timer may come first.
\* (In Spec and SpecCmd every update is rendered before the next event.)
\* ------------------------------------------------------------------------

\* recognition.onresult with a final result; the render is still to come.
onresultQueued(raw) ==
  /\ mounted
  /\ engine = "running"
  /\ Len(queued) < MaxQueued
  /\ queued' = Append(queued, <<"result", trim(raw)>>)
  /\ last' = Did("onresult", <<raw, TRUE>>)
  /\ UNCHANGED <<isSupported, form, mounted, isListening, transcript,
                 recognitionRef, effectIsListening, engine, timers,
                 lastTranscriptRef, currentFieldRef, formData, currentField,
                 sessionGen>>

\* The gate's timer calls resetTranscript(); the render is still to come.
resetTimerQueued ==
  /\ timers # <<>>
  /\ Head(timers)[1] = "reset"
  /\ Len(queued) < MaxQueued
  /\ timers' = Tail(timers)
  /\ queued' = Append(queued, <<"reset", <<>>>>)
  /\ last' = Did("resetTimer", <<>>)
  /\ UNCHANGED <<isSupported, form, mounted, isListening, transcript,
                 recognitionRef, effectIsListening, engine,
                 lastTranscriptRef, currentFieldRef, formData, currentField,
                 sessionGen>>

\* React renders: the queued updates are applied in order (each replaces
\* the state, so the last one stays), then the gate effect runs if the
\* transcript changed.
render ==
  /\ queued # <<>>
  /\ queued' = <<>>
  /\ SetTranscript(queued[Len(queued)][2], Did("render", <<>>), timers)
  /\ UNCHANGED <<isSupported, form, mounted, isListening, recognitionRef,
                 effectIsListening, engine, sessionGen>>

\* A listening session on a form with empty fields.
InitRender == InitCmd /\ formData = EmptyFormData

NextRender ==
  \/ \E raw \in Utterances : onresultQueued(raw)
  \/ resetTimerQueued
  \/ render

SpecRender == InitRender /\ [][NextRender]_vars

\* ------------------------------------------------------------------------
\* Properties
\* ------------------------------------------------------------------------

\* A final onresult was the last step, and the component is mounted.
FinalResult ==
  /\ last.op = "onresult"
  /\ last.arg[2]
  /\ mounted

C2_RetryGuardedByListening ==
  (last.op = "retryTimer" /\ mounted /\ last.pre.isListening)
    => last.calls = <<>>

\* C3: every non-empty finalized transcript is forwarded to the interpreter
\* exactly once, also one finalized after the gate's reset (transcript is
\* empty again) whose text equals the transcript forwarded before.
C3_EveryFinalTranscriptForwarded ==
  (FinalResult /\ form \in Forms /\ last.pre.transcript = <<>>
     /\ trim(last.arg[1]) # <<>>)
    => last.fwd = <<toLowerCase(trim(last.arg[1]))>>

\* C4: on a form (the gate's host), when a final result repeats the
\* transcript that is still set (no reset in between), the interpreter is not
\* run again and no callback is invoked.
C4_GateDedup ==
  (FinalResult /\ form \in Forms /\ last.pre.transcript # <<>>
     /\ trim(last.arg[1]) = last.pre.transcript)
    => /\ last.fwd = <<>>
       /\ last.cbs = <<>>
       /\ last.effects = <<>>
       /\ lastTranscriptRef = last.pre.transcript

C4_Witness ==
  /\ FinalResult
  /\ form \in Forms
  /\ last.pre.transcript # <<>>
  /\ trim(last.arg[1]) = last.pre.transcript
  /\ last.fwd = <<>>

\* C5 (as stated): when onresult has just set the transcript, listening is
\* false.
C5_NotListeningWhenTranscriptSet ==
  (FinalResult /\ transcript = trim(last.arg[1]) /\ transcript # <<>>)
    => ~isListening

\* C5 (amended): onresult leaves listening as it is: when onresult has just
\* set the transcript, listening is still true (the onend or onerror that
\* clears it comes later).
C5_StillListeningWhenTranscriptSet ==
  last.op = "onresult" /\ mounted
    => /\ isListening
       /\ isListening = last.pre.isListening

C5_Witness ==
  /\ FinalResult
  /\ transcript = trim(last.arg[1])
  /\ transcript # <<>>
  /\ last.fwd # <<>>
  /\ isListening

\* C6: start() changes nothing and invokes nothing when listening is true
\* or the engine is unsupported; otherwise it clears the transcript and
\* invokes the engine's start primitive exactly once.
C6_StartFrame ==
  last.op = "startListening"
    => IF last.pre.isListening \/ ~isSupported
       THEN /\ transcript = last.pre.transcript
            /\ isListening = last.pre.isListening
            /\ last.calls = <<>>
       ELSE /\ transcript = <<>>
            /\ last.calls = <<"start">>

C6_Witness ==
  /\ last.op = "startListening"
  /\ last.calls = <<"start">>
  /\ last.pre.transcript # <<>>
  /\ transcript = <<>>

\* C7: when the engine's start primitive throws during start(), no
\* exception reaches the caller and listening is false afterwards.
C7_StartSwallowsThrow ==
  (last.op = "startListening" /\ last.threw)
    => (~last.escaped /\ ~isListening)

C7_Witness ==
  /\ last.op = "startListening"
  /\ last.threw
  /\ ~last.escaped

\* C8: stop() invokes the engine's stop primitive exactly when listening is
\* true, and leaves listening and transcript as they are; listening turns
\* false only in onend or onerror.
C8_StopFrame ==
  /\ last.op = "stopListening"
       => /\ last.calls = IF last.pre.isListening THEN <<"stop">> ELSE <<>>
          /\ isListening = last.pre.isListening
          /\ transcript = last.pre.transcript
  /\ (last.pre.isListening /\ ~isListening)
       => last.op \in {"onend", "onerror"}

C8_Witness ==
  /\ last.op = "stopListening"
  /\ last.calls = <<"stop">>
  /\ isListening
  /\ engine = "running"

\* C9: unmount invokes the engine's stop primitive exactly once when an
\* engine object was created, whether listening or not, and invokes
\* nothing when the engine is unsupported.
C9_UnmountStops ==
  last.op = "unmount"
    => /\ recognitionRef # Null => last.calls = <<"stop">>
       /\ ~isSupported => last.calls = <<>>
       /\ (recognitionRef # Null) = isSupported

C9_Witness ==
  /\ last.op = "unmount"
  /\ ~last.pre.isListening
  /\ engine = "idle"
  /\ last.calls = <<"stop">>

\* C10: after the unmount no transcript-reset timer of the gate fires.
C10_NoResetAfterUnmount ==
  ~(last.op = "resetTimer" /\ ~mounted)

\* ------------------------------------------------------------------------
\* The interpreter as specified: ten rules, first match wins
\* ------------------------------------------------------------------------

Rule1(c) == includes(c, S_go_to_sign_up) \/ includes(c, S_signup_page)
Rule2(c) == includes(c, S_sign_in) /\ ~includes(c, S_go_to)
Rule3(c) == includes(c, S_sign_up) /\ ~includes(c, S_go_to)
Rule4(c) == includes(c, S_next)
Rule5(c) == startsWith(c, S_confirm_password)
Rule6(c) == startsWith(c, S_password) /\ ~includes(c, S_confirm)
Rule7(c) == startsWith(c, S_email)
Rule8(c) == startsWith(c, S_name)

NavigationRule(c) == Rule1(c) \/ Rule2(c) \/ Rule3(c) \/ Rule4(c)
SelectRule(c) == Rule5(c) \/ Rule6(c) \/ Rule7(c) \/ Rule8(c)
NoRule(c) == ~NavigationRule(c) /\ ~SelectRule(c)

\* The remainder of c after its literal prefix kw, trimmed.
After(c, kw) == trim(SubSeq(c, Len(kw) + 1, Len(c)))

\* The text that follows the first occurrence of kw in c, trimmed.
AfterFirst(c, kw) ==
  LET i == CHOOSE j \in 1..(Len(c) + 1) :
             /\ MatchAt(c, kw, j)
             /\ \A k \in 1..(j - 1) : ~MatchAt(c, kw, k)
  IN trim(SubSeq(c, i + Len(kw), Len(c)))

Command(kind, what, value) == [kind |-> kind, what |-> what, value |-> value]

\* The Command of transcript c with current field f.
SpecCommand(c, f) ==
  IF Rule1(c) THEN Command("Navigate", "GoToSignUp", <<>>)
  ELSE IF Rule2(c) THEN Command("Navigate", "SignIn", <<>>)
  ELSE IF Rule3(c) THEN Command("Navigate", "SignUp", <<>>)
  ELSE IF Rule4(c) THEN Command("Navigate", "Next", <<>>)
  ELSE IF Rule5(c)
  THEN Command("SelectField", "confirmPassword", After(c, S_confirm_password))
  ELSE IF Rule6(c) THEN Command("SelectField", "password", After(c, S_password))
  ELSE IF Rule7(c) THEN Command("SelectField", "email", After(c, S_email))
  ELSE IF Rule8(c) THEN Command("SelectField", "name", After(c, S_name))
  ELSE IF f # Null /\ c # <<>> THEN Command("DirectInput", f, c)
  ELSE Command("NoOp", Null, <<>>)

\* The value callback of a field and the callback of a navigation target.
ValueCallback(f) ==
  CASE f = "name" -> "onNameCommand"
    [] f = "email" -> "onEmailCommand"
    [] f = "password" -> "onPasswordCommand"
    [] f = "confirmPassword" -> "onConfirmPasswordCommand"

NavigationCallback(t) ==
  CASE t = "GoToSignUp" -> "onGoToSignUpCommand"
    [] t = "SignIn" -> "onSignInCommand"
    [] t = "SignUp" -> "onSignUpCommand"
    [] t = "Next" -> "onNextCommand"

\* The sign-in form passes no onConfirmPasswordCommand.
Supplies(page, f) == f = "confirmPassword" => page = "register"

\* The current field and the callbacks that applying a Command gives.
ApplyCommand(cmd, f, page) ==
  CASE cmd.kind = "Navigate" ->
         [field |-> f, cbs |-> <<Call(NavigationCallback(cmd.what), <<>>)>>]
    [] cmd.kind = "SelectField" ->
         [field |-> cmd.what,
          cbs |-> IF cmd.value # <<>> /\ Supplies(page, cmd.what)
                  THEN <<Call(ValueCallback(cmd.what), cmd.value)>>
                  ELSE <<>>]
    [] cmd.kind = "DirectInput" ->
         [field |-> f,
          cbs |-> IF Supplies(page, cmd.what)
                  THEN <<Call(ValueCallback(cmd.what), cmd.value)>>
                  ELSE <<>>]
    [] OTHER -> [field |-> f, cbs |-> <<>>]

\* The last step forwarded a transcript to the interpreter.
Forwarded == last.op = "onresult" /\ last.fwd # <<>>

\* The Command of the forwarded transcript.
ForwardedCommand == SpecCommand(last.fwd[1], last.pre.currentFieldRef)

\* Nothing of the form changed in the last step.
FormUntouched ==
  /\ last.cbs = <<>>
  /\ last.effects = <<>>
  /\ formData = last.pre.formData
  /\ currentField = last.pre.currentField

\* C11: without a speech engine every operation is a no-op: listening
\* stays false, transcript stays empty, no engine primitive and no callback
\* is invoked, nothing throws; and isSupported never changes.
C11_UnsupportedNoOps ==
  /\ [](~isSupported =>
          /\ ~isListening
          /\ transcript = <<>>
          /\ engine = "idle"
          /\ last.calls = <<>>
          /\ ~last.threw
          /\ ~last.escaped
          /\ last.fwd = <<>>
          /\ last.cbs = <<>>)
  /\ [][isSupported' = isSupported]_vars

C11_Witness ==
  /\ ~isSupported
  /\ last.op = "startListening"
  /\ form \in Forms

\* C12 (as stated): every transcript that contains "confirm password X"
\* makes confirmPassword the current field and passes X to
\* onConfirmPasswordCommand (on the registration form, which supplies it).
C12_ContainsConfirmPassword ==
  (/\ Forwarded
   /\ form = "register"
   /\ includes(last.fwd[1], S_confirm_password)
   /\ AfterFirst(last.fwd[1], S_confirm_password) # <<>>)
    => /\ currentFieldRef = "confirmPassword"
       /\ last.cbs = <<Call("onConfirmPasswordCommand",
                            AfterFirst(last.fwd[1], S_confirm_password))>>

\* C12 (amended): every transcript that starts with "confirm password" and
\* matches none of the navigation rules 1-4 makes confirmPassword the
\* current field and, when the remainder X is not empty and the form
\* supplies onConfirmPasswordCommand, passes X to it; and no transcript that
\* contains "confirm password" is taken as a selection of the password
\* field.
C12_StartsWithConfirmPassword ==
  /\ (Forwarded /\ Rule5(last.fwd[1]) /\ ~NavigationRule(last.fwd[1]))
       => /\ currentFieldRef = "confirmPassword"
          /\ last.cbs =
               IF After(last.fwd[1], S_confirm_password) # <<>>
                    /\ Supplies(form, "confirmPassword")
               THEN <<Call("onConfirmPasswordCommand",
                           After(last.fwd[1], S_confirm_password))>>
               ELSE <<>>
  /\ (Forwarded /\ includes(last.fwd[1], S_confirm_password))
       => /\ currentFieldRef = "password"
               => last.pre.currentFieldRef = "password"
          /\ \A i \in 1..Len(last.cbs) :
               last.cbs[i].cb = "onPasswordCommand"
                 => /\ last.cbs[i].arg = last.fwd[1]
                    /\ last.pre.currentFieldRef = "password"

C12_Witness ==
  /\ Forwarded
  /\ form = "register"
  /\ last.fwd[1] = S_confirm_password \o <<" ">> \o S_x
  /\ last.pre.currentFieldRef # "confirmPassword"
  /\ currentFieldRef = "confirmPassword"
  /\ last.cbs = <<Call("onConfirmPasswordCommand", S_x)>>
  /\ formData.confirmPassword = S_x

\* C13 (as stated): every transcript that starts with "password" and does
\* not contain "confirm" selects the password field with the remainder.
C13_StartsWithPassword ==
  (/\ Forwarded
   /\ startsWith(last.fwd[1], S_password)
   /\ ~includes(last.fwd[1], S_confirm))
    => /\ currentFieldRef = "password"
       /\ last.cbs = IF After(last.fwd[1], S_password) # <<>>
                     THEN <<Call("onPasswordCommand",
                                 After(last.fwd[1], S_password))>>
                     ELSE <<>>

\* C13 (amended): every transcript that starts with "password", does not
\* contain "confirm" and matches none of the navigation rules 1-4 selects
\* the password field with the remainder, trimmed.
C13_StartsWithPasswordNoNavigation ==
  (/\ Forwarded
   /\ startsWith(last.fwd[1], S_password)
   /\ ~includes(last.fwd[1], S_confirm)
   /\ ~NavigationRule(last.fwd[1]))
    => /\ currentFieldRef = "password"
       /\ last.cbs = IF After(last.fwd[1], S_password) # <<>>
                     THEN <<Call("onPasswordCommand",
                                 After(last.fwd[1], S_password))>>
                     ELSE <<>>

C13_Witness ==
  /\ Forwarded
  /\ last.fwd[1] = S_password \o <<" ">> \o S_two_words
  /\ last.pre.currentFieldRef # "password"
  /\ currentFieldRef = "password"
  /\ last.cbs = <<Call("onPasswordCommand", S_two_words)>>
  /\ formData.password = <<"a", "b">>

\* C14: for every transcript and current field, processVoiceCommand does
\* what applying the Command of the ten rules, in their order, does.
C14_SameAsTenRules ==
  Forwarded
    => [field |-> currentFieldRef, cbs |-> last.cbs]
         = ApplyCommand(ForwardedCommand, last.pre.currentFieldRef, form)

\* A transcript on which the order of the password rules matters.
C14_Witness ==
  /\ Forwarded
  /\ last.fwd[1] = S_password \o <<" ">> \o S_confirm
  /\ last.pre.currentFieldRef = "email"
  /\ ForwardedCommand.kind = "DirectInput"
  /\ last.cbs = <<Call("onEmailCommand", last.fwd[1])>>

\* C15 (as stated): with current field f and a transcript that matches
\* none of rules 1-8, exactly f's value callback is invoked, once, with the
\* whole transcript, and the current field stays f.
C15_DirectInput ==
  (Forwarded /\ last.pre.currentFieldRef # Null /\ NoRule(last.fwd[1]))
    => /\ last.cbs = <<Call(ValueCallback(last.pre.currentFieldRef),
                            last.fwd[1])>>
       /\ currentFieldRef = last.pre.currentFieldRef

\* C15 (amended): as stated when the form supplies f's value callback;
\* when it does not (confirmPassword on the sign-in form) no callback is
\* invoked and the current field stays f.
C15_DirectInputIfSupplied ==
  (Forwarded /\ last.pre.currentFieldRef # Null /\ NoRule(last.fwd[1]))
    => /\ last.cbs =
            IF Supplies(form, last.pre.currentFieldRef)
            THEN <<Call(ValueCallback(last.pre.currentFieldRef),
                        last.fwd[1])>>
            ELSE <<>>
       /\ currentFieldRef = last.pre.currentFieldRef

C15_Witness ==
  /\ Forwarded
  /\ last.pre.currentFieldRef = "email"
  /\ last.fwd[1] = S_value
  /\ last.cbs = <<Call("onEmailCommand", S_value)>>
  /\ currentFieldRef = "email"
  /\ formData.email = S_value

\* C16: with no current field, a transcript that matches none of rules 1-8
\* invokes no callback and leaves the current field None; a value callback
\* is invoked with no current field only by a field selection.
C16_NoOpWithoutField ==
  /\ (Forwarded /\ last.pre.currentFieldRef = Null /\ NoRule(last.fwd[1]))
       => (FormUntouched /\ currentFieldRef = Null)
  /\ (Forwarded /\ last.pre.currentFieldRef = Null /\ last.cbs # <<>>)
       => ForwardedCommand.kind \in {"Navigate", "SelectField"}

C16_Witness ==
  /\ Forwarded
  /\ last.pre.currentFieldRef = Null
  /\ last.fwd[1] = S_value
  /\ FormUntouched
  /\ currentFieldRef = Null

\* The transcript before the last step was exactly the keyword of field f:
\* a selection of f with no inline value.
SelectedBefore(f) == toLowerCase(last.pre.transcript) = Keyword(f)

\* C17 (as stated): a SelectField(f, v) makes f the current field and,
\* when v is not empty, invokes f's value callback exactly once with v;
\* when v is empty it invokes nothing, and the next admitted transcript that
\* matches none of rules 1-8 is passed to f's value callback.
C17_SelectField ==
  /\ (Forwarded /\ ForwardedCommand.kind = "SelectField")
       => /\ currentFieldRef = ForwardedCommand.what
          /\ last.cbs = IF ForwardedCommand.value # <<>>
                        THEN <<Call(ValueCallback(ForwardedCommand.what),
                                    ForwardedCommand.value)>>
                        ELSE <<>>
  /\ \A f \in FieldNames :
       (Forwarded /\ SelectedBefore(f) /\ NoRule(last.fwd[1]))
         => last.cbs = <<Call(ValueCallback(f), last.fwd[1])>>

\* C17 (amended): as stated for the value callbacks the form supplies; a
\* selection or a follow-up dictation for a field whose optional callback
\* the form does not supply (confirmPassword on the sign-in form) sets the
\* current field and invokes nothing.
C17_SelectFieldIfSupplied ==
  /\ (Forwarded /\ ForwardedCommand.kind = "SelectField")
       => /\ currentFieldRef = ForwardedCommand.what
          /\ last.cbs = IF ForwardedCommand.value # <<>>
                             /\ Supplies(form, ForwardedCommand.what)
                        THEN <<Call(ValueCallback(ForwardedCommand.what),
                                    ForwardedCommand.value)>>
                        ELSE <<>>
  /\ \A f \in FieldNames :
       (Forwarded /\ SelectedBefore(f) /\ NoRule(last.fwd[1]))
         => /\ last.pre.currentFieldRef = f
            /\ currentFieldRef = f
            /\ last.cbs = IF Supplies(form, f)
                          THEN <<Call(ValueCallback(f), last.fwd[1])>>
                          ELSE <<>>

\* "email" alone was admitted and the dictation that followed went to
\* onEmailCommand.
C17_Witness ==
  /\ Forwarded
  /\ SelectedBefore("email")
  /\ Len(timers) = 2
  /\ last.fwd[1] = S_x
  /\ last.cbs = <<Call("onEmailCommand", S_x)>>
  /\ formData.email = S_x

\* C18: on the registration form every SelectField(f, _) makes f the field
\* focus state, for the routing of dictation (currentFieldRef) and as the
\* starting point of the next Navigate(Next) (the page's currentField).
C18_SelectFieldSetsFocus ==
  (Forwarded /\ form = "register" /\ ForwardedCommand.kind = "SelectField")
    => /\ currentFieldRef = ForwardedCommand.what
       /\ currentField = ForwardedCommand.what

\* The registration order.
Successor(f) ==
  CASE f = "name" -> "email"
    [] f = "email" -> "password"
    [] f = "password" -> "confirmPassword"
    [] OTHER -> f

ForwardedNext ==
  /\ Forwarded
  /\ form = "register"
  /\ ForwardedCommand.kind = "Navigate"
  /\ ForwardedCommand.what = "Next"

\* C19: on the registration form Navigate(Next) from name, email or
\* password moves the current field to its successor, and dictation is
\* then routed to that successor.
C19_NextAdvancesRouting ==
  (ForwardedNext /\ last.pre.currentField \in {"name", "email", "password"})
    => /\ currentField = Successor(last.pre.currentField)
       /\ currentFieldRef = Successor(last.pre.currentField)

AllFour(fd) == \A f \in FieldNames : fd[f] # <<>>

\* C20: on the registration form Navigate(Next) in field state
\* confirmPassword triggers the submit exactly when the four fields are all
\* non-empty, and leaves the field state confirmPassword.
C20_NextAtConfirmPassword ==
  (ForwardedNext /\ last.pre.currentField = "confirmPassword")
    => /\ last.effects = IF AllFour(last.pre.formData)
                         THEN <<"handleSubmit">> ELSE <<>>
       /\ currentField = "confirmPassword"
       /\ formData = last.pre.formData

C20_Witness ==
  /\ ForwardedNext
  /\ last.pre.currentField = "confirmPassword"
  /\ AllFour(formData)
  /\ last.effects = <<"handleSubmit">>

\* The routing field and the page's own state are as before the last step.
FieldsUntouched ==
  /\ currentFieldRef = last.pre.currentFieldRef
  /\ currentField = last.pre.currentField
  /\ formData = last.pre.formData

\* C21: on the sign-in form an admitted "sign in" triggers the submit
\* exactly once when email and password are both non-empty, and nothing (no
\* submit, no navigation, no change of a field or a value) when the
\* password is empty.
C21_SignInOnLogin ==
  (Forwarded /\ form = "login" /\ last.fwd[1] = S_sign_in)
    => /\ last.cbs = <<Call("onSignInCommand", <<>>)>>
       /\ FieldsUntouched
       /\ (last.pre.formData.email # <<>> /\ last.pre.formData.password # <<>>)
            => last.effects = <<"handleSubmit">>
       /\ last.pre.formData.password = <<>> => last.effects = <<>>

C21_Witness ==
  /\ Forwarded
  /\ form = "login"
  /\ last.fwd[1] = S_sign_in
  /\ formData.email = S_value
  /\ formData.password = S_x
  /\ last.effects = <<"handleSubmit">>

\* The fields an action needs: signing in needs email and password,
\* signing up needs the four fields.
Complete(what, fd) ==
  IF what = "SignIn" THEN fd.email # <<>> /\ fd.password # <<>>
  ELSE AllFour(fd)

ForwardedSign ==
  /\ Forwarded
  /\ ForwardedCommand.kind = "Navigate"
  /\ ForwardedCommand.what \in {"SignIn", "SignUp"}

\* C22 (as stated): on both forms Navigate(SignIn) and Navigate(SignUp)
\* with an incomplete form are no-ops: no submit, no navigation.
C22_IncompleteFormNoAction ==
  (ForwardedSign /\ ~Complete(ForwardedCommand.what, last.pre.formData))
    => last.effects = <<>>

\* C22 (amended): Navigate(SignUp) on the registration form submits exactly
\* when the four fields are non-empty, Navigate(SignIn) on the sign-in form
\* submits exactly when email and password are non-empty, and otherwise they
\* are no-ops; Navigate(SignIn) on the registration form navigates to the
\* sign-in page whatever the fields hold, and Navigate(SignUp) on the
\* sign-in form does nothing.  None of them changes a field or a value.
C22_SubmitOnlyWhenComplete ==
  ForwardedSign
    => /\ FieldsUntouched
       /\ last.cbs = <<Call(NavigationCallback(ForwardedCommand.what), <<>>)>>
       /\ last.effects =
            CASE form = "register" /\ ForwardedCommand.what = "SignUp" ->
                   IF AllFour(last.pre.formData)
                   THEN <<"handleSubmit">> ELSE <<>>
              [] form = "login" /\ ForwardedCommand.what = "SignIn" ->
                   IF Complete("SignIn", last.pre.formData)
                   THEN <<"handleSubmit">> ELSE <<>>
              [] form = "register" /\ ForwardedCommand.what = "SignIn" ->
                   <<"navigate /login">>
              [] OTHER -> <<>>

\* "sign up" on a registration form with one field still empty.
C22_Witness ==
  /\ ForwardedSign
  /\ form = "register"
  /\ ForwardedCommand.what = "SignUp"
  /\ formData.name # <<>> /\ formData.email # <<>> /\ formData.password # <<>>
  /\ formData.confirmPassword = <<>>
  /\ last.effects = <<>>

InitialField(page) == IF page = "register" THEN "name" ELSE "email"

\* C24: on a freshly mounted form, before any command was admitted, the
\* field to which raw dictation is routed is name on the registration form
\* and email on the sign-in form.
C24_InitialField ==
  /\ (form \in Forms /\ last.op = "onstart" /\ lastTranscriptRef = <<>>)
       => currentFieldRef = InitialField(form)
  /\ (Forwarded /\ last.pre.lastTranscriptRef = <<>> /\ NoRule(last.fwd[1]))
       => last.cbs = <<Call(ValueCallback(InitialField(form)), last.fwd[1])>>

Resets(queue) == { i \in 1..Len(queue) : queue[i][1] = "reset" }

\* What the gate forwards when each update of a batch is rendered on its
\* own, in order: old is the transcript and lastAdmitted the ref before.
RECURSIVE ForwardedOneByOne(_, _, _)
ForwardedOneByOne(batch, old, lastAdmitted) ==
  IF batch = <<>> THEN <<>>
  ELSE LET new == Head(batch)[2]
       IN IF new # old /\ new # <<>> /\ new # lastAdmitted
          THEN <<toLowerCase(new)>>
                 \o ForwardedOneByOne(Tail(batch), new, new)
          ELSE ForwardedOneByOne(Tail(batch), new, lastAdmitted)

\* C26: the final transcripts that the engine produces in quick succession
\* (before or within the settle delay of the first) are each forwarded to
\* the interpreter once, in the order in which they were finalized.
C26_BothForwardedInOrder ==
  last.op = "render"
    => last.fwd = ForwardedOneByOne(last.pre.queued, last.pre.transcript,
                                    last.pre.lastTranscriptRef)

\* C27: at most one transcript reset is pending at any time, and a reset
\* that fires clears the transcript only when no later reset is pending.
C27_OneResetPending ==
  /\ Cardinality(Resets(timers)) <= 1
  /\ (last.op = "resetTimer" /\ mounted /\ last.pre.transcript # <<>>
        /\ Resets(timers) # {})
       => transcript = last.pre.transcript

\* C28: lastTranscriptRef.current becomes t only after processVoiceCommand
\* has processed t: while the interpreter runs on t the ref still holds the
\* transcript admitted before.
C28_RefUpdatedAfterInterpretation ==
  Forwarded => last.during = <<last.pre.lastTranscriptRef>>

\* C29: a reset never forwards anything and invokes no callback, and on a
\* mounted form it leaves the transcript empty; after a transcript was
\* forwarded, the transcript becomes empty again or the form is unmounted.
C29_EventuallyReset ==
  /\ [](last.op = "resetTimer"
          => /\ last.fwd = <<>>
             /\ last.cbs = <<>>
             /\ last.effects = <<>>
             /\ mounted => transcript = <<>>)
  /\ (Forwarded ~> (transcript = <<>> \/ ~mounted))

\* A reset timer cleared a forwarded transcript.
C29_Witness ==
  /\ last.op = "resetTimer"
  /\ mounted
  /\ form \in Forms
  /\ last.pre.transcript # <<>>
  /\ last.pre.transcript = lastTranscriptRef
  /\ transcript = <<>>

\* C30: the engine's start primitive is never invoked while an engine
\* session is active: no start attempt meets a session that was started and
\* has not ended (the engine answers such an attempt by throwing).
C30_StartsNeverOverlap ==
  last.calls = <<"start">> => ~last.threw

\* C31: an onresult whose first result is not final leaves transcript and
\* listening as they are and forwards nothing; a final one sets transcript
\* to the trimmed text of the first alternative of the first result.
C31_InterimIgnored ==
  /\ (last.op = "onresult" /\ ~last.arg[2])
       => /\ transcript = last.pre.transcript
          /\ isListening = last.pre.isListening
          /\ lastTranscriptRef = last.pre.lastTranscriptRef
          /\ timers = last.pre.timers
          /\ last.fwd = <<>>
          /\ FormUntouched
  /\ FinalResult
       => /\ transcript = trim(last.arg[1])
          /\ isListening = last.pre.isListening

\* An interim result with a text that is not the transcript.
C31_Witness ==
  /\ last.op = "onresult"
  /\ ~last.arg[2]
  /\ mounted
  /\ form \in Forms
  /\ trim(last.arg[1]) # <<>>
  /\ trim(last.arg[1]) # transcript
  /\ trim(last.arg[1]) # lastTranscriptRef
  /\ isListening

\* The last step was a call of resetTranscript(): by the gate's timer or by
\* the chat page.
ResetStep(l) == l.op \in {"resetTimer", "resetTranscript"}

\* C32: resetTranscript() sets transcript to the empty string and leaves
\* listening, the engine and the current field as they are, in every state
\* of the mounted hook.
C32_ResetFrame ==
  [][ ResetStep(last')
        => /\ mounted => transcript' = <<>>
           /\ UNCHANGED <<isListening, engine, recognitionRef, currentFieldRef,
                          currentField, formData, lastTranscriptRef,
                          sessionGen>>
           /\ last'.fwd = <<>>
           /\ last'.calls = <<>>
    ]_vars

\* A reset while listening, with a transcript set and a current field.
C32_Witness ==
  /\ last.op = "resetTimer"
  /\ mounted
  /\ isListening
  /\ engine = "running"
  /\ last.pre.transcript # <<>>
  /\ transcript = <<>>

\* Character classes of the stored values.
NoWhitespace(v) == \A i \in 1..Len(v) : ~IsSpace(v[i])
NoUpperCase(v) == \A i \in 1..Len(v) : LowerChar(v[i]) = v[i]

\* v without its whitespace characters, in order.
RECURSIVE WithoutWhitespace(_)
WithoutWhitespace(v) ==
  IF v = <<>> THEN <<>>
  ELSE (IF IsSpace(Head(v)) THEN <<>> ELSE <<Head(v)>>)
         \o WithoutWhitespace(Tail(v))

\* The value a command dictates for field f: the inline value of a
\* selection of f, or the whole transcript of a direct input to f.
Dictated(f) ==
  /\ Forwarded
  /\ ForwardedCommand.kind \in {"SelectField", "DirectInput"}
  /\ ForwardedCommand.what = f
  /\ ForwardedCommand.value # <<>>
  /\ Supplies(form, f)

\* C33: the stored email has no whitespace and no upper-case letter, the
\* stored password and confirm-password have no whitespace, and a value
\* dictated for one of them, inline or as direct input, is stored with its
\* whitespace removed (the email in lower case).
C33_StoredValuesNormalized ==
  /\ NoWhitespace(formData.email) /\ NoUpperCase(formData.email)
  /\ NoWhitespace(formData.password)
  /\ NoWhitespace(formData.confirmPassword)
  /\ Dictated("email")
       => formData.email = WithoutWhitespace(ForwardedCommand.value)
  /\ Dictated("password")
       => formData.password = WithoutWhitespace(ForwardedCommand.value)
  /\ Dictated("confirmPassword")
       => formData.confirmPassword
            = WithoutWhitespace(ForwardedCommand.value)

\* A dictation of two words went to the email field and was stored as one
\* word.
C33_Witness ==
  /\ Dictated("email")
  /\ ForwardedCommand.kind = "DirectInput"
  /\ last.fwd[1] = S_two_words
  /\ formData.email = <<"a", "b">>

\* C34: one admitted transcript is one command: the interpreter runs once
\* on it, invokes at most one callback, at most once, and the current field
\* changes only by the one selection.
C34_OneCommand ==
  Forwarded
    => /\ Len(last.fwd) = 1
       /\ Len(last.cbs) <= 1
       /\ Len(last.effects) <= 1
       /\ currentFieldRef # last.pre.currentFieldRef
            => /\ ForwardedCommand.kind = "SelectField"
               /\ currentFieldRef = ForwardedCommand.what

\* "name next" is a navigation only: the name selection does not run.
C34_Witness ==
  /\ Forwarded
  /\ last.fwd[1] = S_name \o <<" ">> \o S_next
  /\ last.pre.currentFieldRef = "email"
  /\ last.cbs = <<Call("onNextCommand", <<>>)>>
  /\ currentFieldRef = "email"

\* C35: after the unmount the engine's start primitive is not invoked: a
\* retry timer that was pending at the unmount does not restart the engine.
C35_NoStartAfterUnmount ==
  ~mounted => last.calls # <<"start">>

\* C37: while the hook is mounted, listening is true only when the engine
\* has delivered onstart for a session that has not delivered onerror or
\* onend since; and when the engine ends every session, listening becomes
\* false again after every start.
C37_ListeningOnlyWhileActive ==
  /\ []((mounted /\ isListening) => engine = "running")
  /\ ((last.calls = <<"start">> /\ ~last.threw)
        ~> ((~isListening /\ engine = "idle") \/ ~mounted))
  /\ (isListening ~> (~isListening \/ ~mounted))

\* The session of a listening hook ended.
C37_Witness ==
  /\ last.op = "onend"
  /\ mounted
  /\ last.pre.isListening
  /\ ~isListening
  /\ engine = "idle"

\* C38: right after an engine error other than no-speech, listening is
\* false, no restart was scheduled, and the start primitive is not invoked
\* unless the caller calls startListening().
C38_NoRestartAfterOtherError ==
  /\ []((last.op = "onerror" /\ last.arg[1] # "no-speech" /\ mounted)
          => (~isListening /\ timers = last.pre.timers))
  /\ [][ (last.op = "onerror" /\ last.arg[1] # "no-speech")
           => (last'.calls = <<"start">> => last'.op = "startListening")
       ]_vars

\* The last step forwarded a navigation transcript.
ForwardedNavigation(l) ==
  /\ l.op = "onresult"
  /\ l.fwd # <<>>
  /\ NavigationRule(l.fwd[1])

\* C39: a navigation command leaves the hook's current field as it is, and
\* a raw dictation that follows it goes to the field that was current before
\* the navigation (to no callback when there was none or the form supplies
\* none for it).
C39_NavigationKeepsField ==
  [][ /\ ForwardedNavigation(last')
        => /\ currentFieldRef' = currentFieldRef
           /\ Len(last'.cbs) = 1
           /\ last'.cbs[1].arg = <<>>
      /\ (/\ ForwardedNavigation(last)
          /\ last'.op = "onresult"
          /\ last'.fwd # <<>>
          /\ NoRule(last'.fwd[1]))
        => last'.cbs =
             IF last.pre.currentFieldRef # Null
                  /\ Supplies(form, last.pre.currentFieldRef)
             THEN <<Call(ValueCallback(last.pre.currentFieldRef),
                         last'.fwd[1])>>
             ELSE <<>>
    ]_vars

\* "next" on the registration form with email current, then a dictation
\* that went to the email field.
C39_Witness ==
  /\ Forwarded
  /\ form = "register"
  /\ toLowerCase(last.pre.transcript) = S_next
  /\ Len(timers) = 2
  /\ last.pre.currentFieldRef = "email"
  /\ last.fwd[1] = S_value
  /\ last.cbs = <<Call("onEmailCommand", S_value)>>

\* C36: a reset timer that was scheduled for an earlier transcript does not
\* take a newly finalized transcript away: when a final result and, after
\* it, a stale reset precede a render, the transcript of that result (not
\* empty, not the last admitted one) is forwarded to the interpreter.
C36_NoStaleResetLoss ==
  LET q == last.pre.queued
      n == Len(q)
  IN (/\ last.op = "render"
      /\ n >= 2
      /\ q[n][1] = "reset"
      /\ q[n - 1][1] = "result"
      /\ q[n - 1][2] # <<>>
      /\ q[n - 1][2] # last.pre.lastTranscriptRef)
       => /\ last.fwd = <<toLowerCase(q[n - 1][2])>>
          /\ lastTranscriptRef = q[n - 1][2]

====
